---- MODULE Spec2Model ----
(***************************************************************************)
(* StaticMixtureAgent (tf_agents/bandits/agents/static_mixture_agent.py):  *)
(* construction of the mixture agent from a list of sub-agents and a list  *)
(* of mixture weights, and its _train, which routes every row of a batch   *)
(* to the sub-agent named by the row's mixture_agent_id.                   *)
(*                                                                         *)
(* Data representation.                                                    *)
(*   tensor     a sequence; a [B, T] tensor is a sequence of B sequences   *)
(*              of T integers, a flattened tensor a sequence of integers.  *)
(*   nest       [kind, keys, items]: kind "tensor" (a bare tensor, one     *)
(*              item), "tuple" (items in order, possibly none) or "dict"   *)
(*              (keys in insertion order, items aligned with keys).        *)
(*   spec       [kind, keys, size, dtype]: the structure of a nest.        *)
(* The code never inspects the numbers a data tensor holds, so every cell  *)
(* of an input tensor holds a number that names its leaf and its position: *)
(* 100 * leaf + 10 * b + t.  Zero is therefore never an input value.       *)
(***************************************************************************)
EXTENDS Integers, Sequences, FiniteSets

VARIABLES
  pc,                \* "new", "failed" (constructor raised), "ready",
                     \* "loop" (inside _train), "done" (_train has ended)
  args,              \* the arguments the constructor was called with
  raised,            \* the exception the constructor raised, if any
  _agents,
  _num_agents,
  _mixture_weights,
  _original_info_spec,
  _time_step_spec,
  _action_spec,
  _policy,
  experience,        \* the batch the current/last train call was given
  reward,            \* locals of _train, lines 112-123
  action,
  observation,
  policy_choice,
  original_infos,
  partitioned_nested_infos,       \* locals of _train, lines 125-143
  partitioned_nested_rewards,
  partitioned_nested_actions,
  partitioned_nested_observations,
  k,                 \* loop variable of line 145
  loss,              \* accumulator of lines 144, 153
  train_calls,       \* the calls made to sub-agents' train, in order
  train_result       \* how the last train call ended

ctor_vars == <<args, raised, _agents, _num_agents, _mixture_weights,
               _original_info_spec, _time_step_spec, _action_spec, _policy>>
flat_vars == <<reward, action, observation, policy_choice, original_infos>>
part_vars == <<partitioned_nested_infos, partitioned_nested_rewards,
               partitioned_nested_actions, partitioned_nested_observations>>
vars == <<pc, ctor_vars, experience, flat_vars, part_vars, k, loss,
          train_calls, train_result>>

\* Bounds of the model.
MaxAgents == 2
MaxRows == 3

-----------------------------------------------------------------------------
\* Python values.

None == "None"

NoException == [type |-> None, message |-> None]

Exception(type, message) == [type |-> type, message |-> message]

NoNest == [kind |-> None, keys |-> <<>>, items |-> <<>>]

NoSpec == [kind |-> None, keys |-> <<>>, size |-> 0, dtype |-> None]

Range(s) == {s[i] : i \in DOMAIN s}

IndexOf(s, x) == CHOOSE i \in DOMAIN s : s[i] = x

-----------------------------------------------------------------------------
\* Specs of the sub-agents.

TensorSpec(dtype) ==
  [kind |-> "tensor", keys |-> <<>>, size |-> 1, dtype |-> dtype]

TupleSpec(n) == [kind |-> "tuple", keys |-> <<>>, size |-> n, dtype |-> "float32"]

DictSpec(keys) ==
  [kind |-> "dict", keys |-> keys, size |-> Len(keys), dtype |-> "float32"]

ActionSpecs == {TensorSpec("int32"), TensorSpec("int64")}

ObservationSpecs == {TensorSpec("float32"), DictSpec(<<"y", "x">>)}

TimeStepSpecs ==
  {[observation |-> o, reward |-> TensorSpec("float32")] : o \in ObservationSpecs}

\* The info spec of a bandit policy that emits nothing is the empty tuple.
InfoSpecs == {TupleSpec(0), TupleSpec(2)}

Agents ==
  {[action_spec |-> a, time_step_spec |-> t, policy |-> [info_spec |-> i],
    collect_policy |-> [info_spec |-> i]] :
      a \in ActionSpecs, t \in TimeStepSpecs, i \in InfoSpecs}

SeqsUpTo(S, n) == UNION {[1..m -> S] : m \in 0..n}

AgentLists == SeqsUpTo(Agents, MaxAgents)

\* Weight lists of every length up to one more than the longest agent list.
\* The code reads only the length of the list; the weights are 1, 2, 3, ...
MixtureWeightLists == {[i \in 1..m |-> i] : m \in 0..(MaxAgents + 1)}

-----------------------------------------------------------------------------
\* __init__, lines 85-107.

\* A variant of ValidateAgents in which a time step mismatch is reported with
\* the message of the action check.
RECURSIVE ValidateAgents_CopiedMessage(_, _, _, _, _)
ValidateAgents_CopiedMessage(rest, action_spec, time_step_spec, info_spec, error_message) ==
  IF rest = <<>> THEN error_message
  ELSE LET agent == Head(rest)
           e1 == IF action_spec # agent.action_spec
                   THEN "Inconsistent action specs." ELSE error_message
           e2 == IF time_step_spec # agent.time_step_spec
                   THEN "Inconsistent action specs." ELSE e1
           e3 == IF info_spec # agent.policy.info_spec
                   THEN "Inconsistent info specs." ELSE e2
       IN  ValidateAgents_CopiedMessage(Tail(rest), action_spec, time_step_spec,
                                        info_spec, e3)

\* The loop of lines 90-96 over agents[1:]: the message is the last one set.
RECURSIVE ValidateAgents(_, _, _, _, _)
ValidateAgents(rest, action_spec, time_step_spec, info_spec, error_message) ==
  IF rest = <<>> THEN error_message
  ELSE LET agent == Head(rest)
           e1 == IF action_spec # agent.action_spec
                   THEN "Inconsistent action specs." ELSE error_message
           e2 == IF time_step_spec # agent.time_step_spec
                   THEN "Inconsistent time step specs." ELSE e1
           e3 == IF info_spec # agent.policy.info_spec
                   THEN "Inconsistent info specs." ELSE e2
       IN  ValidateAgents(Tail(rest), action_spec, time_step_spec, info_spec, e3)

\* A variant of ErrorMessage that compares the number of weights with the
\* number of agents after the first.
ErrorMessage_LengthOfTail(mixture_weights, agents) ==
  LET e == ValidateAgents(Tail(agents), agents[1].action_spec,
                          agents[1].time_step_spec, agents[1].policy.info_spec,
                          None)
  IN  IF Len(mixture_weights) # Len(Tail(agents))
        THEN "mixture_weights and agents must have equal length."
        ELSE e

\* A variant of ErrorMessage without the check of the lengths.
ErrorMessage_NoLengthCheck(mixture_weights, agents) ==
  ValidateAgents(Tail(agents), agents[1].action_spec, agents[1].time_step_spec,
                 agents[1].policy.info_spec, None)

\* Lines 89-98: the message the constructor ends with (None: no error).
\* The last message is written here without the backquotes the source puts
\* around the two names.
ErrorMessage(mixture_weights, agents) ==
  LET e == ValidateAgents(Tail(agents), agents[1].action_spec,
                          agents[1].time_step_spec, agents[1].policy.info_spec,
                          None)
  IN  IF Len(mixture_weights) # Len(agents)
        THEN "mixture_weights and agents must have equal length."
        ELSE e

\* mixture_policy.MixturePolicy(mixture_weights, policies), line 105.
MixturePolicy(mixture_weights, policies) ==
  [mixture_weights |-> mixture_weights, policies |-> policies]

__init__(mixture_weights, agents) ==
  /\ pc = "new"
  /\ args' = [mixture_weights |-> mixture_weights, agents |-> agents]
  /\ IF agents = <<>>
       THEN \* line 86: agents[0] of an empty list
            /\ raised' = Exception("IndexError", "list index out of range")
            /\ pc' = "failed"
            /\ UNCHANGED <<_agents, _num_agents, _mixture_weights,
                           _original_info_spec, _time_step_spec, _action_spec,
                           _policy>>
       ELSE LET error_message == ErrorMessage(mixture_weights, agents)
            IN  /\ _original_info_spec' = agents[1].policy.info_spec
                /\ IF error_message # None
                     THEN /\ raised' = Exception("ValueError", error_message)
                          /\ pc' = "failed"
                          /\ UNCHANGED <<_agents, _num_agents, _mixture_weights,
                                         _time_step_spec, _action_spec, _policy>>
                     ELSE /\ raised' = NoException
                          /\ _agents' = agents
                          /\ _num_agents' = Len(agents)
                          /\ _mixture_weights' = mixture_weights
                          /\ _policy' = MixturePolicy(mixture_weights,
                               [i \in DOMAIN agents |-> agents[i].collect_policy])
                          /\ _time_step_spec' = agents[1].time_step_spec
                          /\ _action_spec' = agents[1].action_spec
                          /\ pc' = "ready"
  /\ UNCHANGED <<experience, flat_vars, part_vars, k, loss, train_calls,
                 train_result>>

Construct ==
  \E mixture_weights \in MixtureWeightLists, agents \in AgentLists :
    __init__(mixture_weights, agents)

-----------------------------------------------------------------------------
\* tf.nest, as lines 49-58 use it.

\* The dictionary keys in use, in sorted order: tf.nest visits the items of a
\* dictionary by sorted key, whatever the order they were inserted in.
KeyOrder == <<"x", "y">>

SortedKeys(keys) ==
  LET Used(key) == key \in Range(keys) IN SelectSeq(KeyOrder, Used)

\* tf.nest.flatten(nest): the leaves, in tf.nest's order.
NestFlatten(nest) ==
  IF nest.kind = "dict"
    THEN LET sorted == SortedKeys(nest.keys)
         IN  [i \in 1..Len(sorted) |-> nest.items[IndexOf(nest.keys, sorted[i])]]
    ELSE nest.items

\* tf.nest.pack_sequence_as(structure, flat).
PackSequenceAs(structure, flat) ==
  [kind  |-> structure.kind,
   keys  |-> structure.keys,
   items |-> IF structure.kind = "dict"
               THEN [i \in 1..Len(structure.keys) |->
                       flat[IndexOf(SortedKeys(structure.keys), structure.keys[i])]]
               ELSE flat]

\* tf.nest.assert_same_structure(nest, spec).
SameStructure(nest, spec) ==
  /\ nest.kind = spec.kind
  /\ Len(nest.items) = spec.size
  /\ Range(nest.keys) = Range(spec.keys)

\* A bare tensor given where a tensor is expected.
AsTensor(nest) == nest.items[1]

-----------------------------------------------------------------------------
\* nest_utils and trajectory, as _train uses them.

\* Reshape [B, T] to [B * T], rows in row-major order.
RECURSIVE FlattenOuter(_)
FlattenOuter(tensor) ==
  IF tensor = <<>> THEN <<>> ELSE Head(tensor) \o FlattenOuter(Tail(tensor))

\* nest_utils.flatten_multi_batched_nested_tensors(tensors, specs)[0]; it
\* raises when the structures differ.
flatten_multi_batched_nested_tensors(tensors, specs) ==
  LET flat_tensors == NestFlatten(tensors)
  IN  PackSequenceAs(tensors,
        [i \in DOMAIN flat_tensors |-> FlattenOuter(flat_tensors[i])])

FlattenRaises(tensors, specs) == ~SameStructure(tensors, specs)

\* nest_utils.batch_nested_tensors(tensors) without specs: every tensor gets
\* an outer batch dimension of size one.
batch_nested_tensors(tensors) ==
  [tensors EXCEPT !.items = [i \in DOMAIN tensors.items |-> <<tensors.items[i]>>]]

\* The same on a list of nests (line 125 passes the whole list).
batch_nested_tensors_list(list) ==
  [i \in DOMAIN list |-> batch_nested_tensors(list[i])]

\* tf.zeros_like on a nest of batched tensors.
zeros_like(tensors) ==
  [tensors EXCEPT !.items =
     [i \in DOMAIN tensors.items |->
        [b \in DOMAIN tensors.items[i] |->
           [j \in DOMAIN tensors.items[i][b] |-> 0]]]]

\* trajectory.single_step(observation, action, policy_info, reward, discount).
single_step(obs, act, policy_info, rew, discount) ==
  [step_type |-> "FIRST", observation |-> obs, action |-> act,
   policy_info |-> policy_info, next_step_type |-> "LAST", reward |-> rew,
   discount |-> discount]

-----------------------------------------------------------------------------
\* _dynamic_partition_of_nested_tensors, lines 30-58.

\* tf.dynamic_partition(data, partitions, num_partitions) on a flattened
\* tensor: row j is appended to output partitions[j], rows taken in order.
\* It is applied only to arguments DynamicPartitionRaises accepts.
RECURSIVE DynamicPartition(_, _, _)
DynamicPartition(data, partitions, num_partitions) ==
  IF partitions = <<>> THEN [i \in 1..num_partitions |-> <<>>]
  ELSE LET n == Len(partitions)
           before == DynamicPartition(data, SubSeq(partitions, 1, n - 1),
                                      num_partitions)
       IN  [before EXCEPT ![partitions[n] + 1] = Append(@, data[n])]

\* tf.dynamic_partition raises when partitions does not have data's leading
\* dimension or holds a label outside [0, num_partitions).
DynamicPartitionRaises(data, partitions, num_partitions) ==
  \/ Len(data) # Len(partitions)
  \/ \E j \in DOMAIN partitions : partitions[j] \notin 0..(num_partitions - 1)

\* zip(*lists), each tuple made a list (line 55): as long as the shortest
\* list, and empty when there is no list.
ZipStar(lists) ==
  IF lists = <<>> THEN <<>>
  ELSE LET n == CHOOSE m \in {Len(lists[l]) : l \in DOMAIN lists} :
                  \A l \in DOMAIN lists : m <= Len(lists[l])
       IN  [i \in 1..n |-> [l \in DOMAIN lists |-> lists[l][i]]]

_dynamic_partition_of_nested_tensors(nested_tensor, partitions, num_partitions) ==
  LET flattened_tensors == NestFlatten(nested_tensor)
      partitioned_flat_tensors ==
        [l \in DOMAIN flattened_tensors |->
           DynamicPartition(flattened_tensors[l], partitions, num_partitions)]
      list_of_partitions == ZipStar(partitioned_flat_tensors)
  IN  [i \in DOMAIN list_of_partitions |->
         PackSequenceAs(nested_tensor, list_of_partitions[i])]

PartitionRaises(nested_tensor, partitions, num_partitions) ==
  \E l \in DOMAIN NestFlatten(nested_tensor) :
    DynamicPartitionRaises(NestFlatten(nested_tensor)[l], partitions, num_partitions)

-----------------------------------------------------------------------------
\* The batches _train is called with.

NoExperience ==
  [observation |-> NoNest, action |-> NoNest, reward |-> NoNest,
   discount |-> NoNest,
   policy_info |-> [mixture_agent_id |-> NoNest, subpolicy_info |-> NoNest]]

Fields == {"reward", "action", "observation", "subpolicy_info"}

NoDefect == [field |-> None, what |-> None]

\* A batch has at most one defect: one field has one row more in its outer
\* dimension than mixture_agent_id, or has its two outer dimensions swapped,
\* or has another structure than its spec.
Defects ==
  {NoDefect} \cup
  {[field |-> f, what |-> w] : f \in Fields, w \in {"rows", "transposed", "structure"}}

\* The outer dimensions [B, T] of mixture_agent_id: at most MaxRows rows, and
\* T is 1 (the bandit case) or 2.
BatchShapes ==
  {s \in (1..MaxRows) \X (1..2) : s[1] * s[2] <= MaxRows}

LeafCode(field) ==
  CASE field = "reward" -> 1
    [] field = "action" -> 2
    [] field = "observation" -> 3
    [] field = "subpolicy_info" -> 5
    [] field = "discount" -> 7

Cell(leaf, b, t) == 100 * leaf + 10 * b + t

FillTensor(leaf, shape) ==
  [b \in 1..shape[1] |-> [t \in 1..shape[2] |-> Cell(leaf, b, t)]]

FillNest(spec, field, shape) ==
  [kind  |-> spec.kind,
   keys  |-> spec.keys,
   items |-> [i \in 1..spec.size |-> FillTensor(LeafCode(field) + i - 1, shape)]]

\* The spec the coordinator holds for a field of the batch.
FieldSpec(field) ==
  CASE field = "reward" -> _time_step_spec.reward
    [] field = "action" -> _action_spec
    [] field = "observation" -> _time_step_spec.observation
    [] field = "subpolicy_info" -> _original_info_spec

WrongStructure(field) ==
  CASE field = "reward" -> TupleSpec(2)
    [] field = "action" -> TupleSpec(2)
    [] field = "observation" ->
         CHOOSE o \in ObservationSpecs : o # _time_step_spec.observation
    [] field = "subpolicy_info" ->
         CHOOSE i \in InfoSpecs : i # _original_info_spec

MakeField(field, shape, defect) ==
  LET spec == IF defect.field = field /\ defect.what = "structure"
                THEN WrongStructure(field) ELSE FieldSpec(field)
      shp  == IF defect.field = field /\ defect.what = "rows"
                THEN <<shape[1] + 1, shape[2]>>
              ELSE IF defect.field = field /\ defect.what = "transposed"
                THEN <<shape[2], shape[1]>>
              ELSE shape
  IN  FillNest(spec, field, shp)

MakeExperience(shape, labels, defect) ==
  [observation |-> MakeField("observation", shape, defect),
   action      |-> MakeField("action", shape, defect),
   reward      |-> MakeField("reward", shape, defect),
   discount    |-> FillNest(TensorSpec("float32"), "discount", shape),
   policy_info |->
     [mixture_agent_id |-> [kind |-> "tensor", keys |-> <<>>, items |-> <<labels>>],
      subpolicy_info   |-> MakeField("subpolicy_info", shape, defect)]]

\* Labels of the agents, and one label that names no agent.
Labels == 0.._num_agents

Experiences ==
  UNION {{MakeExperience(s, labels, d) :
            labels \in [1..s[1] -> [1..s[2] -> Labels]], d \in Defects} :
         s \in BatchShapes}

-----------------------------------------------------------------------------
\* _train, lines 109-154.

\* What a sub-agent's train returns as its loss (when it returns).
Losses == {1, 2}

NoResult == [status |-> None, error |-> None, loss |-> 0]

LossInfo(l) == [status |-> "ok", error |-> None, loss |-> l]

TrainRaised(error) == [status |-> "raised", error |-> error, loss |-> 0]

\* A variant of PartitionsRaise in which the observations are not partitioned
\* before the loop.
PartitionsRaise_ObservationsLater(infos, rewards, actions, observations, partitions) ==
  \/ PartitionRaises(infos, partitions, _num_agents)
  \/ PartitionRaises(rewards, partitions, _num_agents)
  \/ PartitionRaises(actions, partitions, _num_agents)

\* Lines 125-143: one of the four partitionings raises.  All four are done
\* before the loop of line 145.
PartitionsRaise(infos, rewards, actions, observations, partitions) ==
  \/ PartitionRaises(infos, partitions, _num_agents)
  \/ PartitionRaises(rewards, partitions, _num_agents)
  \/ PartitionRaises(actions, partitions, _num_agents)
  \/ PartitionRaises(observations, partitions, _num_agents)

\* Lines 112-143: flatten the five fields, partition four of them.
TrainBegin ==
  /\ pc = "ready"
  /\ \E e \in Experiences :
       LET r   == flatten_multi_batched_nested_tensors(e.reward, _time_step_spec.reward)
           a   == flatten_multi_batched_nested_tensors(e.action, _action_spec)
           o   == flatten_multi_batched_nested_tensors(
                    e.observation, _time_step_spec.observation)
           pch == flatten_multi_batched_nested_tensors(
                    e.policy_info.mixture_agent_id, _time_step_spec.reward)
           oi  == flatten_multi_batched_nested_tensors(
                    e.policy_info.subpolicy_info, _original_info_spec)
           flatten_raises ==
             \/ FlattenRaises(e.reward, _time_step_spec.reward)
             \/ FlattenRaises(e.action, _action_spec)
             \/ FlattenRaises(e.observation, _time_step_spec.observation)
             \/ FlattenRaises(e.policy_info.mixture_agent_id, _time_step_spec.reward)
             \/ FlattenRaises(e.policy_info.subpolicy_info, _original_info_spec)
           partition_raises == PartitionsRaise(oi, r, a, o, AsTensor(pch))
       IN  /\ experience' = e
           /\ train_calls' = <<>>
           /\ k' = 0
           /\ loss' = 0
           /\ IF flatten_raises
                THEN /\ train_result' = TrainRaised("flatten")
                     /\ pc' = "done"
                     /\ reward' = NoNest /\ action' = NoNest
                     /\ observation' = NoNest /\ policy_choice' = NoNest
                     /\ original_infos' = NoNest
                     /\ partitioned_nested_infos' = <<>>
                     /\ partitioned_nested_rewards' = <<>>
                     /\ partitioned_nested_actions' = <<>>
                     /\ partitioned_nested_observations' = <<>>
                ELSE /\ reward' = r /\ action' = a /\ observation' = o
                     /\ policy_choice' = pch /\ original_infos' = oi
                     /\ IF partition_raises
                          THEN /\ train_result' = TrainRaised("dynamic_partition")
                               /\ pc' = "done"
                               /\ partitioned_nested_infos' = <<>>
                               /\ partitioned_nested_rewards' = <<>>
                               /\ partitioned_nested_actions' = <<>>
                               /\ partitioned_nested_observations' = <<>>
                          ELSE /\ train_result' = NoResult
                               /\ pc' = "loop"
                               /\ partitioned_nested_infos' =
                                    batch_nested_tensors_list(
                                      _dynamic_partition_of_nested_tensors(
                                        oi, AsTensor(pch), _num_agents))
                               /\ LET parts ==
                                        _dynamic_partition_of_nested_tensors(
                                          r, AsTensor(pch), _num_agents)
                                  IN  partitioned_nested_rewards' =
                                        [i \in DOMAIN parts |->
                                           batch_nested_tensors(parts[i])]
                               /\ LET parts ==
                                        _dynamic_partition_of_nested_tensors(
                                          a, AsTensor(pch), _num_agents)
                                  IN  partitioned_nested_actions' =
                                        [i \in DOMAIN parts |->
                                           batch_nested_tensors(parts[i])]
                               /\ LET parts ==
                                        _dynamic_partition_of_nested_tensors(
                                          o, AsTensor(pch), _num_agents)
                                  IN  partitioned_nested_observations' =
                                        [i \in DOMAIN parts |->
                                           batch_nested_tensors(parts[i])]
  /\ UNCHANGED ctor_vars

\* A variant of TrainExperience that passes the reward as the discount.
TrainExperience_RewardAsDiscount ==
  single_step(partitioned_nested_observations[k + 1],
              partitioned_nested_actions[k + 1],
              partitioned_nested_infos[k + 1],
              partitioned_nested_rewards[k + 1],
              partitioned_nested_rewards[k + 1])

\* Lines 146-151: the transition sub-agent k is trained on.  Valid when every
\* list has an entry for k.
TrainExperience ==
  single_step(partitioned_nested_observations[k + 1],
              partitioned_nested_actions[k + 1],
              partitioned_nested_infos[k + 1],
              partitioned_nested_rewards[k + 1],
              zeros_like(partitioned_nested_rewards[k + 1]))

\* A list of lines 147-151 has no entry k: IndexError.
IndexRaises ==
  \/ k + 1 \notin DOMAIN partitioned_nested_observations
  \/ k + 1 \notin DOMAIN partitioned_nested_actions
  \/ k + 1 \notin DOMAIN partitioned_nested_infos
  \/ k + 1 \notin DOMAIN partitioned_nested_rewards

\* A variant of TrainStep that does not call a sub-agent whose group is empty.
TrainStep_SkipEmptyGroup ==
  /\ pc = "loop"
  /\ k < _num_agents
  /\ IF IndexRaises
       THEN /\ train_result' = TrainRaised("IndexError")
            /\ pc' = "done"
            /\ UNCHANGED <<k, loss, train_calls>>
       ELSE IF partitioned_nested_rewards[k + 1].items[1][1] = <<>>
         THEN /\ k' = k + 1
              /\ UNCHANGED <<pc, loss, train_calls, train_result>>
         ELSE \/ \E l \in Losses :
                   /\ train_calls' = Append(train_calls,
                        [agent |-> k, experience |-> TrainExperience,
                         raised |-> FALSE, loss |-> l])
                   /\ loss' = loss + l
                   /\ k' = k + 1
                   /\ UNCHANGED <<pc, train_result>>
              \/ /\ train_calls' = Append(train_calls,
                      [agent |-> k, experience |-> TrainExperience,
                       raised |-> TRUE, loss |-> 0])
                 /\ train_result' = TrainRaised("sub-agent")
                 /\ pc' = "done"
                 /\ UNCHANGED <<k, loss>>
  /\ UNCHANGED <<ctor_vars, experience, flat_vars, part_vars>>

\* One pass of the loop of lines 145-153.  The sub-agent's train is opaque:
\* it returns some loss or raises.
TrainStep ==
  /\ pc = "loop"
  /\ k < _num_agents
  /\ IF IndexRaises
       THEN /\ train_result' = TrainRaised("IndexError")
            /\ pc' = "done"
            /\ UNCHANGED <<k, loss, train_calls>>
       ELSE \/ \E l \in Losses :
                 /\ train_calls' = Append(train_calls,
                      [agent |-> k, experience |-> TrainExperience,
                       raised |-> FALSE, loss |-> l])
                 /\ loss' = loss + l
                 /\ k' = k + 1
                 /\ UNCHANGED <<pc, train_result>>
            \/ /\ train_calls' = Append(train_calls,
                    [agent |-> k, experience |-> TrainExperience,
                     raised |-> TRUE, loss |-> 0])
               /\ train_result' = TrainRaised("sub-agent")
               /\ pc' = "done"
               /\ UNCHANGED <<k, loss>>
  /\ UNCHANGED <<ctor_vars, experience, flat_vars, part_vars>>

\* A variant of TrainReturn that returns the mean of the losses.
TrainReturn_MeanLoss ==
  /\ pc = "loop"
  /\ k = _num_agents
  /\ train_result' = LossInfo(loss \div _num_agents)
  /\ pc' = "done"
  /\ UNCHANGED <<ctor_vars, experience, flat_vars, part_vars, k, loss, train_calls>>

\* Line 154.
TrainReturn ==
  /\ pc = "loop"
  /\ k = _num_agents
  /\ train_result' = LossInfo(loss)
  /\ pc' = "done"
  /\ UNCHANGED <<ctor_vars, experience, flat_vars, part_vars, k, loss, train_calls>>

\* The caller has the result (or the exception) of the call: the call's frame
\* and its batch are gone, and the agent is ready for the next call.
TrainEnd ==
  /\ pc = "done"
  /\ pc' = "ready"
  /\ experience' = NoExperience
  /\ reward' = NoNest /\ action' = NoNest
  /\ observation' = NoNest /\ policy_choice' = NoNest
  /\ original_infos' = NoNest
  /\ partitioned_nested_infos' = <<>>
  /\ partitioned_nested_rewards' = <<>>
  /\ partitioned_nested_actions' = <<>>
  /\ partitioned_nested_observations' = <<>>
  /\ k' = 0
  /\ loss' = 0
  /\ train_calls' = <<>>
  /\ train_result' = NoResult
  /\ UNCHANGED ctor_vars

-----------------------------------------------------------------------------
Init ==
  /\ pc = "new"
  /\ args = [mixture_weights |-> <<>>, agents |-> <<>>]
  /\ raised = NoException
  /\ _agents = <<>>
  /\ _num_agents = 0
  /\ _mixture_weights = <<>>
  /\ _original_info_spec = NoSpec
  /\ _time_step_spec = [observation |-> NoSpec, reward |-> NoSpec]
  /\ _action_spec = NoSpec
  /\ _policy = MixturePolicy(<<>>, <<>>)
  /\ experience = NoExperience
  /\ reward = NoNest
  /\ action = NoNest
  /\ observation = NoNest
  /\ policy_choice = NoNest
  /\ original_infos = NoNest
  /\ partitioned_nested_infos = <<>>
  /\ partitioned_nested_rewards = <<>>
  /\ partitioned_nested_actions = <<>>
  /\ partitioned_nested_observations = <<>>
  /\ k = 0
  /\ loss = 0
  /\ train_calls = <<>>
  /\ train_result = NoResult

Next == Construct \/ TrainBegin \/ TrainStep \/ TrainReturn \/ TrainEnd

Spec == Init /\ [][Next]_vars

-----------------------------------------------------------------------------
\* What the claims speak of, stated on the constructor's arguments and on the
\* batch as it was given, not on what the code computed from them.

ActionSpecsDisagree ==
  \E i, j \in DOMAIN args.agents :
    args.agents[i].action_spec # args.agents[j].action_spec

TimeStepSpecsDisagree ==
  \E i, j \in DOMAIN args.agents :
    args.agents[i].time_step_spec # args.agents[j].time_step_spec

InfoSpecsDisagree ==
  \E i, j \in DOMAIN args.agents :
    args.agents[i].policy.info_spec # args.agents[j].policy.info_spec

LengthsDiffer == Len(args.mixture_weights) # Len(args.agents)

ChecksFailing ==
  {m \in {"action", "time step", "info", "length"} :
     \/ m = "action" /\ ActionSpecsDisagree
     \/ m = "time step" /\ TimeStepSpecsDisagree
     \/ m = "info" /\ InfoSpecsDisagree
     \/ m = "length" /\ LengthsDiffer}

\* The check a message of the constructor names.
CheckNamed(message) ==
  CASE message = "Inconsistent action specs." -> "action"
    [] message = "Inconsistent time step specs." -> "time step"
    [] message = "Inconsistent info specs." -> "info"
    [] message = "mixture_weights and agents must have equal length." -> "length"
    [] OTHER -> "none"

InTrain == pc \in {"loop", "done"}

InputField(field) ==
  CASE field = "reward" -> experience.reward
    [] field = "action" -> experience.action
    [] field = "observation" -> experience.observation
    [] field = "subpolicy_info" -> experience.policy_info.subpolicy_info

InputLabels == experience.policy_info.mixture_agent_id.items[1]

\* Rows of a [B, T] tensor, and its row i in row-major order.
RowCount(tensor) == Len(tensor) * Len(tensor[1])

FlatAt(tensor, i) ==
  tensor[((i - 1) \div Len(tensor[1])) + 1][((i - 1) % Len(tensor[1])) + 1]

M == RowCount(InputLabels)

\* The flattened rows that carry label kk, and the j-th of them.
RowsOfLabel(kk) == {i \in 1..M : FlatAt(InputLabels, i) = kk}

Nth(I, j) == CHOOSE i \in I : Cardinality({h \in I : h <= i}) = j

\* Group kk of a [B, T] input tensor: its rows with label kk, in order.
ExpectedGroup(tensor, kk) ==
  [j \in 1..Cardinality(RowsOfLabel(kk)) |-> FlatAt(tensor, Nth(RowsOfLabel(kk), j))]

StructureWrong ==
  \E f \in Fields :
    \/ InputField(f).kind # FieldSpec(f).kind
    \/ Len(InputField(f).items) # FieldSpec(f).size
    \/ Range(InputField(f).keys) # Range(FieldSpec(f).keys)

LeadingDimensionMismatch ==
  \E f \in Fields : \E l \in DOMAIN InputField(f).items :
    Len(InputField(f).items[l]) # Len(InputLabels)

RowCountMismatch ==
  \E f \in Fields : \E l \in DOMAIN InputField(f).items :
    RowCount(InputField(f).items[l]) # M

LabelsInRange == \A i \in 1..M : FlatAt(InputLabels, i) \in 0..(_num_agents - 1)

WellFormed == ~StructureWrong /\ ~RowCountMismatch /\ LabelsInRange

SubAgentRaised == \E c \in DOMAIN train_calls : train_calls[c].raised

FailedBeforeAnyCall ==
  pc = "done" /\ train_result.status = "raised" /\ train_calls = <<>>

\* The nest a sub-agent should get for a field: the input's structure, every
\* leaf holding the rows of the agent's label under one outer batch dimension.
ExpectedNest(field, kk) ==
  [kind  |-> InputField(field).kind,
   keys  |-> InputField(field).keys,
   items |-> [l \in DOMAIN InputField(field).items |->
                <<ExpectedGroup(InputField(field).items[l], kk)>>]]

CallRouted(call) ==
  /\ call.experience.observation = ExpectedNest("observation", call.agent)
  /\ call.experience.action = ExpectedNest("action", call.agent)
  /\ call.experience.reward = ExpectedNest("reward", call.agent)
  /\ call.experience.policy_info = ExpectedNest("subpolicy_info", call.agent)

\* Rows a call delivered (the reward is a single tensor).
RowsDelivered(call) == Len(call.experience.reward.items[1][1])

RECURSIVE SumRows(_)
SumRows(calls) ==
  IF calls = <<>> THEN 0 ELSE RowsDelivered(Head(calls)) + SumRows(Tail(calls))

RECURSIVE SumLosses(_)
SumLosses(calls) ==
  IF calls = <<>> THEN 0 ELSE Head(calls).loss + SumLosses(Tail(calls))

-----------------------------------------------------------------------------
\* C1: in a train call on a well-formed batch with labels in [0, N), the
\* sub-agent with index kk is trained on exactly the rows labelled kk, in their
\* original order, observation, action, reward and subpolicy_info row-aligned;
\* and when the call has ended (no sub-agent having raised) every one of the N
\* sub-agents got its group and the groups' row counts sum to M.
C1_RowsRoutedToTheirAgent ==
  (InTrain /\ WellFormed) =>
    /\ \A c \in DOMAIN train_calls : CallRouted(train_calls[c])
    /\ (pc = "done" /\ ~SubAgentRaised) =>
         /\ {train_calls[c].agent : c \in DOMAIN train_calls} = 0..(_num_agents - 1)
         /\ Len(train_calls) = _num_agents
         /\ SumRows(train_calls) = M

\* The same, for the agents whose sub-policies emit at least one info tensor.
C1_RoutedWhenInfoHasLeaves ==
  (InTrain /\ _original_info_spec.size > 0) => C1_RowsRoutedToTheirAgent

-----------------------------------------------------------------------------
\* C2: applied to a nest whose leaves have M rows each and to M labels in
\* [0, N), _dynamic_partition_of_nested_tensors returns exactly N groups, in
\* label order, each with the structure of the input, group kk holding in every
\* leaf exactly the rows labelled kk in their original order (so every row is
\* in exactly one group and the row counts sum to M).
Partitioned(nested_tensor) ==
  LET groups == _dynamic_partition_of_nested_tensors(
                  nested_tensor, AsTensor(policy_choice), _num_agents)
      labels == AsTensor(policy_choice)
      Rows(kk) == {i \in DOMAIN labels : labels[i] = kk}
  IN  /\ Len(groups) = _num_agents
      /\ \A g \in DOMAIN groups :
           /\ groups[g].kind = nested_tensor.kind
           /\ groups[g].keys = nested_tensor.keys
           /\ DOMAIN groups[g].items = DOMAIN nested_tensor.items
           /\ \A l \in DOMAIN nested_tensor.items :
                groups[g].items[l] =
                  [j \in 1..Cardinality(Rows(g - 1)) |->
                     nested_tensor.items[l][Nth(Rows(g - 1), j)]]

C2_PartitionIsOrderPreservingBijection ==
  (pc = "loop") =>
    /\ Partitioned(original_infos)
    /\ Partitioned(reward)
    /\ Partitioned(action)
    /\ Partitioned(observation)

\* The same, for the nests that have at least one leaf.
C2_PartitionOfNestsWithLeaves ==
  (pc = "loop") =>
    /\ original_infos.items # <<>> => Partitioned(original_infos)
    /\ Partitioned(reward)
    /\ Partitioned(action)
    /\ Partitioned(observation)

-----------------------------------------------------------------------------
\* C3: the constructor raises ValueError whenever two agents disagree on
\* action_spec, time_step_spec or info_spec, or the two lists differ in length.
C3_MismatchRaisesValueError ==
  (pc # "new" /\ ChecksFailing # {}) => raised.type = "ValueError"

\* The same for a list of at least one agent.
C3_MismatchRaisesGivenAnAgent ==
  (pc # "new" /\ ChecksFailing # {} /\ args.agents # <<>>) =>
    raised.type = "ValueError"

-----------------------------------------------------------------------------
\* C4: the calls to the sub-agents' train are made in ascending index order,
\* each index at most once; a train call that returns has called every one of
\* the N sub-agents, the ones no row is labelled with on a batch of zero rows.
C4_EveryAgentTrainedOnceInOrder ==
  InTrain =>
    /\ \A c \in DOMAIN train_calls : train_calls[c].agent = c - 1
    /\ Len(train_calls) <= _num_agents
    /\ (pc = "done" /\ train_result.status = "ok") =>
         /\ Len(train_calls) = _num_agents
         /\ \A c \in DOMAIN train_calls :
              RowsOfLabel(train_calls[c].agent) = {} =>
                /\ ~train_calls[c].raised
                /\ RowsDelivered(train_calls[c]) = 0

C4_Witness ==
  /\ pc = "done"
  /\ train_result.status = "ok"
  /\ _num_agents >= 2
  /\ \E c \in DOMAIN train_calls : RowsDelivered(train_calls[c]) = 0
  /\ \E c \in DOMAIN train_calls : RowsDelivered(train_calls[c]) > 0

-----------------------------------------------------------------------------
\* C5: the loss a train call returns is the plain sum of the losses the N
\* sub-agents returned in that call, those of empty groups included.
C5_LossIsPlainSum ==
  /\ pc = "loop" => loss = SumLosses(train_calls)
  /\ (pc = "done" /\ train_result.status = "ok") =>
       /\ Len(train_calls) = _num_agents
       /\ train_result.loss = SumLosses(train_calls)

C5_Witness ==
  /\ pc = "done"
  /\ train_result.status = "ok"
  /\ Len(train_calls) >= 2
  /\ RowsDelivered(train_calls[1]) = 0
  /\ RowsDelivered(train_calls[2]) >= 2
  /\ train_calls[1].loss # train_calls[2].loss

-----------------------------------------------------------------------------
\* C6, as claimed: a batch with a wrong nested shape, or with a field whose
\* leading dimension differs from that of mixture_agent_id, makes train raise
\* before any sub-agent's train is called.
C6_MalformedFailsBeforeAnyCall ==
  (InTrain /\ (StructureWrong \/ LeadingDimensionMismatch)) =>
    /\ train_calls = <<>>
    /\ pc = "done" => train_result.status = "raised"

\* C6, amended: a batch with a wrong nested shape, or with a field whose
\* number of rows (the product of its two outer dimensions) differs from that
\* of mixture_agent_id, makes train raise before any sub-agent's train is
\* called, and no loss is returned.
C6_WrongShapeOrRowCountFailsBeforeAnyCall ==
  (InTrain /\ (StructureWrong \/ RowCountMismatch)) => FailedBeforeAnyCall

C6_Witness ==
  /\ FailedBeforeAnyCall
  /\ ~StructureWrong
  /\ RowCountMismatch
  /\ LabelsInRange

-----------------------------------------------------------------------------
\* C7: a ValueError of the constructor names a check that fails for the
\* given arguments, and names the one that fails when exactly one fails.
C7_MessageNamesAFailingCheck ==
  raised.type = "ValueError" =>
    /\ CheckNamed(raised.message) \in ChecksFailing
    /\ Cardinality(ChecksFailing) = 1 => ChecksFailing = {CheckNamed(raised.message)}

C7_Witness ==
  /\ raised.type = "ValueError"
  /\ ChecksFailing = {"time step"}
  /\ Len(args.agents) >= 2

-----------------------------------------------------------------------------
\* C8: given N >= 1 agents that agree on the three specs and N weights, the
\* constructor succeeds and stores the agent list, N and the weights, and the
\* agent's own action_spec and time_step_spec are those of the first agent.
C8_ValidArgumentsConstruct ==
  (pc # "new" /\ Len(args.agents) >= 1 /\ ChecksFailing = {}) =>
    /\ pc # "failed"
    /\ raised = NoException
    /\ _agents = args.agents
    /\ _num_agents = Len(args.agents)
    /\ _mixture_weights = args.mixture_weights
    /\ _action_spec = args.agents[1].action_spec
    /\ _time_step_spec = args.agents[1].time_step_spec

C8_Witness ==
  /\ pc = "ready"
  /\ Len(args.agents) = 2
  /\ ChecksFailing = {}

-----------------------------------------------------------------------------
\* C9: from a successful construction on, through train calls that return
\* and train calls that raise, the agent list, N and the weights are the ones
\* the constructor was given, and the two lists have length N.
C9_AgentsAndWeightsNeverChange ==
  pc \in {"ready", "loop", "done"} =>
    /\ _agents = args.agents
    /\ _mixture_weights = args.mixture_weights
    /\ _num_agents = Len(_agents)
    /\ Len(_mixture_weights) = Len(_agents)
    /\ _num_agents >= 1

C9_Witness ==
  /\ pc = "done"
  /\ train_result.status = "raised"
  /\ train_calls # <<>>
  /\ _num_agents >= 2

-----------------------------------------------------------------------------
\* C10: the transition a sub-agent is trained on has a discount of the
\* shape of its reward, zero in every entry, whatever the batch's discount.
C10_DiscountIsZerosLikeReward ==
  \A c \in DOMAIN train_calls :
    LET r == train_calls[c].experience.reward
        d == train_calls[c].experience.discount
    IN  /\ d.kind = r.kind
        /\ DOMAIN d.items = DOMAIN r.items
        /\ \A l \in DOMAIN r.items :
             /\ DOMAIN d.items[l] = DOMAIN r.items[l]
             /\ \A b \in DOMAIN r.items[l] :
                  /\ DOMAIN d.items[l][b] = DOMAIN r.items[l][b]
                  /\ \A j \in DOMAIN r.items[l][b] : d.items[l][b][j] = 0

C10_Witness ==
  /\ pc = "done"
  /\ \E c \in DOMAIN train_calls :
       /\ Len(train_calls[c].experience.discount.items[1][1]) >= 2
       /\ \A b \in DOMAIN experience.discount.items[1] :
            \A t \in DOMAIN experience.discount.items[1][b] :
              experience.discount.items[1][b][t] # 0
====
